---------------------------- MODULE Spec2Model ----------------------------
(***************************************************************************)
(* A model of rbx_xml's XML serializer (src/rbx_xml/src/serializer.rs).    *)
(*                                                                         *)
(* One call of encode_internal is a walk of a WeakDom that writes events   *)
(* to an XmlEventWriter.  The recursion of serialize_instance is kept as   *)
(* an explicit stack of frames; every write to the sink is one step, so    *)
(* that a failing write can end the call between any two events.           *)
(***************************************************************************)
EXTENDS Integers, Sequences, FiniteSets, TLC

(***************************************************************************)
(* Bounds of the model.                                                    *)
(***************************************************************************)
\* Longest list of top-level referents handed to encode_internal.
MaxIds == 2
\* A limited sink accepts between 0 and MaxSinkCap events, then fails.
MaxSinkCap == 13
\* Number of encode calls made one after the other on the same inputs.
MaxCalls == 2

(***************************************************************************)
(* Strings.  Rust orders String by its bytes; the bytes of the property    *)
(* names the trees use are tabulated here.                                 *)
(***************************************************************************)
Bytes(s) ==
    CASE s = "Alpha" -> <<65, 108, 112, 104, 97>>
      [] s = "Anchored" -> <<65, 110, 99, 104, 111, 114, 101, 100>>
      [] s = "Color" -> <<67, 111, 108, 111, 114>>
      [] s = "Font" -> <<70, 111, 110, 116>>
      [] s = "ModelMeshData" -> <<77, 111, 100, 101, 108, 77, 101, 115, 104, 68, 97, 116, 97>>
      [] s = "Name" -> <<78, 97, 109, 101>>
      [] s = "OldColor" -> <<79, 108, 100, 67, 111, 108, 111, 114>>
      [] s = "PhysicalConfigData" -> <<80, 104, 121, 115, 105, 99, 97, 108, 67, 111, 110, 102, 105, 103, 68, 97, 116, 97>>
      [] s = "Text" -> <<84, 101, 120, 116>>
      [] s = "Zeta" -> <<90, 101, 116, 97>>
      [] s = "Zulu" -> <<90, 117, 108, 117>>
      [] s = "alpha" -> <<97, 108, 112, 104, 97>>

\* Lexicographic order of two byte sequences (Ord for [u8], str, String).
RECURSIVE BytesLess(_, _)
BytesLess(a, b) ==
    IF Len(b) = 0 THEN FALSE
    ELSE IF Len(a) = 0 THEN TRUE
    ELSE IF Head(a) < Head(b) THEN TRUE
    ELSE IF Head(a) > Head(b) THEN FALSE
    ELSE BytesLess(Tail(a), Tail(b))

StringLess(s, t) == BytesLess(Bytes(s), Bytes(t))

\* u32::to_string: the decimal digits of n.
DigitChars == <<"0", "1", "2", "3", "4", "5", "6", "7", "8", "9">>

RECURSIVE to_string(_)
to_string(n) ==
    IF n < 10 THEN DigitChars[n + 1]
    ELSE to_string(n \div 10) \o DigitChars[(n % 10) + 1]

\* base64::encode with the standard alphabet and padding.
Base64Chars ==
    <<"A", "B", "C", "D", "E", "F", "G", "H", "I", "J", "K", "L", "M",
      "N", "O", "P", "Q", "R", "S", "T", "U", "V", "W", "X", "Y", "Z",
      "a", "b", "c", "d", "e", "f", "g", "h", "i", "j", "k", "l", "m",
      "n", "o", "p", "q", "r", "s", "t", "u", "v", "w", "x", "y", "z",
      "0", "1", "2", "3", "4", "5", "6", "7", "8", "9", "+", "/">>

B64(i) == Base64Chars[i + 1]

RECURSIVE Base64Encode(_)
Base64Encode(b) ==
    IF Len(b) = 0 THEN ""
    ELSE IF Len(b) = 1 THEN
        B64(b[1] \div 4) \o B64((b[1] % 4) * 16) \o "=="
    ELSE IF Len(b) = 2 THEN
        B64(b[1] \div 4) \o B64((b[1] % 4) * 16 + (b[2] \div 16))
            \o B64((b[2] % 16) * 4) \o "="
    ELSE
        B64(b[1] \div 4) \o B64((b[1] % 4) * 16 + (b[2] \div 16))
            \o B64((b[2] % 16) * 4 + (b[3] \div 64)) \o B64(b[3] % 64)
            \o Base64Encode(SubSeq(b, 4, Len(b)))

(***************************************************************************)
(* Values (rbx_dom_weak::types::Variant).  v is the payload of a numeric,  *)
(* enum or colour value and the handle of a SharedString; s is the         *)
(* payload of a String.                                                    *)
(***************************************************************************)
Variant(ty, v, s) == [ty |-> ty, v |-> v, s |-> s]

VariantString(s) == Variant("String", 0, s)

\* Variant::ty
TypeOf(value) == value.ty

\* The bytes of the SharedString with handle h.  Handles 1 and 4 are two
\* SharedStrings with bit-identical content.
SharedStringData(h) ==
    CASE h = 1 -> <<1, 2, 3, 4>>
      [] h = 2 -> <<255, 254>>
      [] h = 3 -> <<7>>
      [] h = 4 -> <<1, 2, 3, 4>>

\* SharedString::hash: the 32-byte content hash, a function of the bytes,
\* different contents having hashes that differ within their first 16
\* bytes.  The second blob's hash differs from the first's only from byte 2
\* on, the third's is the smallest.
SharedStringHashOf(data) ==
    CASE data = <<1, 2, 3, 4>> -> [i \in 1..32 |-> IF i = 1 THEN 16 ELSE IF i = 2 THEN 9 ELSE (i * 7) % 256]
      [] data = <<255, 254>> -> [i \in 1..32 |-> IF i = 1 THEN 16 ELSE IF i = 2 THEN 77 ELSE (i * 11) % 256]
      [] data = <<7>> -> [i \in 1..32 |-> IF i = 1 THEN 3 ELSE IF i = 2 THEN 250 ELSE (i * 13) % 256]

SharedStringHash(h) == SharedStringHashOf(SharedStringData(h))

\* Number of leading hash bytes written as the md5 attribute.
TruncatedHashLen == 16

(***************************************************************************)
(* The reflection database (rbx_reflection): serialized descriptors by     *)
(* class and property name.                                                *)
(***************************************************************************)
Serializes == [tag |-> "Serializes", new_property_name |-> "", op |-> ""]

Migrate(new_name, op) == [tag |-> "Migrate", new_property_name |-> new_name, op |-> op]

Descriptor(name, data_kind, data_ty, serialization) ==
    [name |-> name,
     data_type |-> [kind |-> data_kind, ty |-> data_ty],
     kind |-> [tag |-> "Canonical", serialization |-> serialization]]

ReflectionDatabase ==
    (<<"Part", "Anchored">> :> Descriptor("Anchored", "Value", "Bool", Serializes))
 @@ (<<"Part", "Color">> :> Descriptor("Color3uint8", "Value", "Color3uint8", Serializes))
 @@ (<<"PartOperation", "PhysicalConfigData">> :>
        Descriptor("PhysicalConfigData", "Value", "SharedString", Serializes))
 @@ (<<"PartOperation", "OldColor">> :>
        Descriptor("OldColor", "Value", "BrickColor", Migrate("Color3uint8", "BrickColorToColor")))
 @@ (<<"Model", "ModelMeshData">> :>
        Descriptor("ModelMeshData", "Value", "SharedString", Serializes))
 @@ (<<"TextLabel", "Font">> :>
        Descriptor("Font", "Enum", "Font", Migrate("FontFace", "FontToFontFace")))
 @@ (<<"TextLabel", "Text">> :> Descriptor("Text", "Value", "String", Serializes))

NoDescriptor == [name |-> "", data_type |-> [kind |-> "None", ty |-> ""],
                 kind |-> [tag |-> "None", serialization |-> Serializes]]

\* core::find_serialized_property_descriptor: Some(descriptor) or None.
find_serialized_property_descriptor(class, property_name, database) ==
    IF <<class, property_name>> \in DOMAIN database
    THEN [some |-> TRUE, descriptor |-> database[<<class, property_name>>]]
    ELSE [some |-> FALSE, descriptor |-> NoDescriptor]

\* ConvertVariant::try_convert_ref: Ok(value of the target type) or
\* Err(message).
try_convert_ref(value, target_type) ==
    IF TypeOf(value) = target_type THEN
        [ok |-> TRUE, value |-> value, message |-> ""]
    ELSE IF TypeOf(value) = "Int32" /\ target_type = "BrickColor" /\ value.v \in {1, 5, 21} THEN
        [ok |-> TRUE, value |-> Variant("BrickColor", value.v, ""), message |-> ""]
    ELSE IF TypeOf(value) = "Color3" /\ target_type = "Color3uint8" THEN
        [ok |-> TRUE, value |-> Variant("Color3uint8", value.v * 255, ""), message |-> ""]
    ELSE
        [ok |-> FALSE, value |-> value,
         message |-> "cannot convert " \o TypeOf(value) \o " to " \o target_type]

\* PropertyMigration::perform: Ok(new value) or Err.
perform(migration, value) ==
    IF migration.op = "BrickColorToColor" /\ TypeOf(value) = "BrickColor" THEN
        [ok |-> TRUE, value |-> Variant("Color3uint8", value.v * 10, "")]
    ELSE IF migration.op = "FontToFontFace" /\ TypeOf(value) = "Enum" /\ value.v \in {3, 4} THEN
        [ok |-> TRUE, value |-> Variant("Font", value.v, "")]
    ELSE
        [ok |-> FALSE, value |-> value]

(***************************************************************************)
(* Trees (rbx_dom_weak::WeakDom).  An instance has a class, a name, a map  *)
(* of properties and a list of children.                                   *)
(***************************************************************************)
Instance(class, name, properties, children) ==
    [class |-> class, name |-> name, properties |-> properties, children |-> children]

\* A tree whose known properties all convert: the first instance has two
\* children stored out of referent order and three unknown properties, one
\* of them a SharedString; the SharedStrings of the tree have three distinct
\* contents and are not met in ascending order of hash; the fifth instance,
\* three levels below the first, has no properties.
DomA ==
    <<Instance("Part", "Base",
        ("Zeta" :> Variant("SharedString", 3, "")) @@ ("alpha" :> Variant("Int32", 2, ""))
            @@ ("Alpha" :> VariantString("a")) @@ ("Color" :> Variant("Color3", 1, "")),
        <<3, 2>>),
      Instance("PartOperation", "Union",
        ("PhysicalConfigData" :> Variant("SharedString", 1, ""))
            @@ ("OldColor" :> Variant("Int32", 5, "")),
        <<>>),
      Instance("Model", "Rig",
        ("ModelMeshData" :> Variant("SharedString", 2, "")),
        <<4>>),
      Instance("PartOperation", "Wedge",
        ("PhysicalConfigData" :> Variant("SharedString", 4, "")),
        <<5>>),
      Instance("Folder", "Empty", <<>>, <<>>)>>

\* A tree with a migration that fails (instance 1), a conversion to a value
\* type that fails (instance 2), an instance without properties (instance 3)
\* above a conversion to an enum that fails (instance 4), and a migration
\* that succeeds (instance 5).
DomB ==
    <<Instance("TextLabel", "Title",
        ("Font" :> Variant("Enum", 99, "")) @@ ("Text" :> VariantString("t")),
        <<>>),
      Instance("Part", "Bad",
        ("Anchored" :> VariantString("yes")) @@ ("Zulu" :> Variant("Int32", 3, "")),
        <<>>),
      Instance("Folder", "Group", <<>>, <<1, 4>>),
      Instance("TextLabel", "Leaf",
        ("Font" :> Variant("Int32", 7, "")) @@ ("Text" :> VariantString("u")),
        <<>>),
      Instance("TextLabel", "Sub",
        ("Font" :> Variant("Enum", 3, "")),
        <<>>)>>

Doms == {"A", "B"}

\* WeakDom::get_by_ref(id).unwrap()
get_by_ref(dom, id) == IF dom = "A" THEN DomA[id] ELSE DomB[id]

Refs == {1, 2, 3, 4, 5}


(***************************************************************************)
(* Options (EncodeOptions) and their property behavior.                    *)
(***************************************************************************)
EncodePropertyBehavior == {"IgnoreUnknown", "WriteUnknown", "ErrorOnUnknown", "NoReflection"}

EncodeOptions(property_behavior) ==
    [property_behavior |-> property_behavior, database |-> ReflectionDatabase]

\* use_reflection answering true under every behavior.
use_reflection_always(options) == TRUE

\* EncodeOptions::use_reflection
use_reflection(options) == options.property_behavior # "NoReflection"

(***************************************************************************)
(* Events written to the XmlEventWriter, and the errors of a call.         *)
(***************************************************************************)
NoValue == Variant("", 0, "")

\* XmlWriteEvent::start_element(tag) with its attributes, in order.
StartElement(tag, attrs) ==
    [ev |-> "start", tag |-> tag, attrs |-> attrs, name |-> "", value |-> NoValue, text |-> ""]

\* XmlWriteEvent::end_element()
EndElement ==
    [ev |-> "end", tag |-> "", attrs |-> <<>>, name |-> "", value |-> NoValue, text |-> ""]

\* XmlEventWriter::write_string(text)
Characters(text) ==
    [ev |-> "text", tag |-> "", attrs |-> <<>>, name |-> "", value |-> NoValue, text |-> text]

\* What types::write_value_xml writes for one property: an entry with the
\* property's name, its value and the value's type.
PropertyEntry(name, value) ==
    [ev |-> "prop", tag |-> TypeOf(value), attrs |-> <<>>, name |-> name, value |-> value, text |-> ""]

Error(kind, class_name, property_name, expected_type, actual_type, message) ==
    [kind |-> kind, class_name |-> class_name, property_name |-> property_name,
     expected_type |-> expected_type, actual_type |-> actual_type, message |-> message]

Pending == Error("Pending", "", "", "", "", "")
Ok == Error("Ok", "", "", "", "", "")
SinkFailure == Error("SinkFailure", "", "", "", "", "")

(***************************************************************************)
(* The state of the program.                                               *)
(***************************************************************************)
VARIABLES
    dom,                     \* tree: the WeakDom being encoded
    ids,                     \* ids: the top-level referents, in the caller's order
    options,                 \* options: EncodeOptions
    sink,                    \* output: the Write the events go to
    call,                    \* the number of the encode_internal call in progress
    prev,                    \* the output and result of the previous call on these inputs
    earlier,                 \* what the calls before this one registered, and how the last ended
    pc,                      \* position in encode_internal / serialize_shared_strings
    idx,                     \* number of top-level ids already handed to serialize_instance
    stack,                   \* the active serialize_instance calls, innermost last
    out,                     \* the events the writer has accepted
    referent_map,            \* EmitState::referent_map
    next_referent,           \* EmitState::next_referent
    shared_strings_to_emit,  \* EmitState::shared_strings_to_emit
    property_buffer,         \* encode_internal's property_buffer
    ss,                      \* position in serialize_shared_strings' loop
    result,                  \* the call's result: Pending, Ok or an error
    visited,                 \* the ids serialize_instance was entered with, in order
    lookups                  \* number of descriptor lookups made in the database

inputs == <<dom, ids, options, sink>>
history == <<call, prev, earlier>>
trace == <<visited, lookups>>
emit == <<referent_map, next_referent, shared_strings_to_emit>>
vars == <<dom, ids, options, sink, call, prev, earlier, pc, idx, stack, out, referent_map,
          next_referent, shared_strings_to_emit, property_buffer, ss, result, visited,
          lookups>>

\* All lists of at most n elements of S.
SeqsUpTo(S, n) == UNION {[1..k -> S] : k \in 0..n}

\* All orders in which a map with key set S may be iterated.
Orders(S) == {o \in [1..Cardinality(S) -> S] : \A i, j \in 1..Cardinality(S) : o[i] = o[j] => i = j}

Sinks == {[limited |-> FALSE, cap |-> 0]} \cup {[limited |-> TRUE, cap |-> c] : c \in 0..MaxSinkCap}

\* Whether the sink takes one more event.
SinkAccepts == ~sink.limited \/ Len(out) < sink.cap

(***************************************************************************)
(* EmitState                                                               *)
(***************************************************************************)
EmptyMap == <<>>

\* map_id allocating a referent on every call, also for an id it has.
map_id_always_allocates(id, rmap, nref) ==
    [referent |-> nref, referent_map |-> (id :> nref) @@ rmap, next_referent |-> nref + 1]

\* map_id without its increment of next_referent.
map_id_no_increment(id, rmap, nref) ==
    IF id \in DOMAIN rmap
    THEN [referent |-> rmap[id], referent_map |-> rmap, next_referent |-> nref]
    ELSE [referent |-> nref, referent_map |-> (id :> nref) @@ rmap, next_referent |-> nref]

\* EmitState::map_id: the referent of id and the registry afterwards.
map_id(id, rmap, nref) ==
    IF id \in DOMAIN rmap
    THEN [referent |-> rmap[id], referent_map |-> rmap, next_referent |-> nref]
    ELSE [referent |-> nref, referent_map |-> (id :> nref) @@ rmap, next_referent |-> nref + 1]

\* add_shared_string keeping an entry per SharedString value handed to it,
\* equal contents included: the key is the hash followed by the handle.
add_shared_string_per_value(strings, h) ==
    (Append(SharedStringHash(h), h) :> h) @@ strings

\* EmitState::add_shared_string: BTreeMap::insert under the content hash.
add_shared_string(strings, h) == (SharedStringHash(h) :> h) @@ strings

\* The keys of a BTreeMap in its iteration order: ascending.
RECURSIVE SortedKeys(_)
SortedKeys(S) ==
    IF S = {} THEN <<>>
    ELSE LET least == CHOOSE k \in S : \A other \in S \ {k} : BytesLess(k, other)
         IN <<least>> \o SortedKeys(S \ {least})

\* values in descending order of key.
ValuesDescending(strings) ==
    LET keys == SortedKeys(DOMAIN strings)
    IN [i \in 1..Len(keys) |-> strings[keys[Len(keys) + 1 - i]]]

\* BTreeMap::values
Values(strings) ==
    LET keys == SortedKeys(DOMAIN strings)
    IN [i \in 1..Len(keys) |-> strings[keys[i]]]

(***************************************************************************)
(* serialize_instance, one property at a time                              *)
(***************************************************************************)
\* Insert entry e into the sorted list s, by property name.
RECURSIVE InsertByKey(_, _)
InsertByKey(e, s) ==
    IF s = <<>> THEN <<e>>
    ELSE IF StringLess(e[1], Head(s)[1]) THEN <<e>> \o s
    ELSE <<Head(s)>> \o InsertByKey(e, Tail(s))

\* A sort that leaves the buffer as it is.
sort_nothing(buffer) == buffer

\* A sort into descending order of property name.
RECURSIVE sort_descending(_)
sort_descending(buffer) ==
    IF buffer = <<>> THEN <<>>
    ELSE LET rest == sort_descending(Tail(buffer))
             smaller == SelectSeq(rest, LAMBDA e : StringLess(e[1], Head(buffer)[1]))
             larger == SelectSeq(rest, LAMBDA e : ~StringLess(e[1], Head(buffer)[1]))
         IN larger \o <<Head(buffer)>> \o smaller

\* property_buffer.sort_unstable_by_key(|(key, _)| *key)
RECURSIVE sort_unstable_by_key(_)
sort_unstable_by_key(buffer) ==
    IF buffer = <<>> THEN <<>>
    ELSE InsertByKey(Head(buffer), sort_unstable_by_key(Tail(buffer)))

\* property_buffer.extend(&instance.properties), the map iterated in order o
extend(buffer, properties, o) ==
    buffer \o [i \in 1..Len(o) |-> <<o[i], properties[o[i]]>>]

\* The VariantType a descriptor's data type is converted to.
data_type_of(descriptor) ==
    IF descriptor.data_type.kind = "Value" THEN descriptor.data_type.ty ELSE "Enum"

\* The migration step keeping the descriptor's name after a migration.
migrate_keeps_name(descriptor, converted_value) ==
    LET serialization == descriptor.kind.serialization
        migrated == perform(serialization, converted_value)
    IN IF descriptor.kind.tag = "Canonical" /\ serialization.tag = "Migrate" /\ migrated.ok
       THEN [name |-> descriptor.name, value |-> migrated.value]
       ELSE [name |-> descriptor.name, value |-> converted_value]

\* The migration step switching the name whether or not perform succeeds.
migrate_renames_always(descriptor, converted_value) ==
    LET serialization == descriptor.kind.serialization
        migrated == perform(serialization, converted_value)
    IN IF descriptor.kind.tag = "Canonical" /\ serialization.tag = "Migrate"
       THEN [name |-> serialization.new_property_name,
             value |-> IF migrated.ok THEN migrated.value ELSE converted_value]
       ELSE [name |-> descriptor.name, value |-> converted_value]

\* The migration step: the name and value to write for a converted value.
migrate(descriptor, converted_value) ==
    LET serialization == descriptor.kind.serialization
        migrated == perform(serialization, converted_value)
    IN IF descriptor.kind.tag = "Canonical" /\ serialization.tag = "Migrate" /\ migrated.ok
       THEN [name |-> serialization.new_property_name, value |-> migrated.value]
       ELSE [name |-> descriptor.name, value |-> converted_value]

Write(name, value) == [act |-> "write", name |-> name, value |-> value, error |-> Ok]
Skip == [act |-> "skip", name |-> "", value |-> NoValue, error |-> Ok]
Return(error) == [act |-> "return", name |-> "", value |-> NoValue, error |-> error]

\* known_property writing the stored value when its conversion fails.
known_property_lenient(class, property_name, value, descriptor) ==
    LET data_type == data_type_of(descriptor)
        converted == try_convert_ref(value, data_type)
        final == migrate(descriptor, converted.value)
    IN IF converted.ok
       THEN Write(final.name, final.value)
       ELSE Write(descriptor.name, value)

\* A property with a descriptor: convert, migrate, write.
known_property(class, property_name, value, descriptor) ==
    LET data_type == data_type_of(descriptor)
        converted == try_convert_ref(value, data_type)
        final == migrate(descriptor, converted.value)
    IN IF converted.ok
       THEN Write(final.name, final.value)
       ELSE Return(Error("UnsupportedPropertyConversion", class, property_name,
                         data_type, TypeOf(value), converted.message))

\* unknown_property with ErrorOnUnknown handled like IgnoreUnknown.
unknown_property_no_error(class, property_name, value, property_behavior) ==
    CASE property_behavior \in {"IgnoreUnknown", "ErrorOnUnknown"} -> Skip
      [] property_behavior \in {"WriteUnknown", "NoReflection"} -> Write(property_name, value)

\* A property without a descriptor: the property behavior decides.
unknown_property(class, property_name, value, property_behavior) ==
    CASE property_behavior = "IgnoreUnknown" -> Skip
      [] property_behavior \in {"WriteUnknown", "NoReflection"} -> Write(property_name, value)
      [] property_behavior = "ErrorOnUnknown" ->
            Return(Error("UnknownProperty", class, property_name, "", "", ""))

\* maybe_serialized_descriptor: the database is asked only under reflection.
lookup(class, property_name, opts) ==
    IF use_reflection(opts)
    THEN [performed |-> TRUE,
          found |-> find_serialized_property_descriptor(class, property_name, opts.database)]
    ELSE [performed |-> FALSE, found |-> [some |-> FALSE, descriptor |-> NoDescriptor]]

\* One iteration of the loop over the drained property buffer.
serialize_property(class, property_name, value, opts) ==
    LET found == lookup(class, property_name, opts).found
    IN IF found.some
       THEN known_property(class, property_name, value, found.descriptor)
       ELSE unknown_property(class, property_name, value, opts.property_behavior)

\* What types::write_value_xml does to the EmitState: a SharedString is
\* registered for the trailing block.
write_value_state(strings, value) ==
    IF TypeOf(value) = "SharedString" THEN add_shared_string(strings, value.v) ELSE strings

Frame(id, at, child) == [id |-> id, at |-> at, child |-> child]

Top == stack[Len(stack)]
Pop == SubSeq(stack, 1, Len(stack) - 1)
At(where) == Pop \o <<[Top EXCEPT !.at = where]>>
InInstance(where) == pc = "Instances" /\ stack # <<>> /\ Top.at = where
TopInstance == get_by_ref(dom, Top.id)

\* An error after which the call returns Ok.
Fail_returns_ok(error) ==
    /\ pc' = "Done"
    /\ result' = Ok
    /\ stack' = <<>>
    /\ property_buffer' = <<>>

\* An error that is recorded while the call goes on where it was.
Fail_and_continue(error) ==
    /\ pc' = pc
    /\ result' = error
    /\ stack' = stack
    /\ property_buffer' = property_buffer

\* An error leaves every serialize_instance call and encode_internal; the
\* drain of the property buffer ends with the buffer empty.
Fail(error) ==
    /\ pc' = "Failed"
    /\ result' = error
    /\ stack' = <<>>
    /\ property_buffer' = <<>>


(***************************************************************************)
(* Init: encode_internal has been called and has built its writer, its     *)
(* EmitState (EmitState::new) and its empty property buffer.               *)
(***************************************************************************)
Init ==
    /\ dom \in Doms
    /\ ids \in SeqsUpTo(Refs, MaxIds)
    /\ options \in {EncodeOptions(b) : b \in EncodePropertyBehavior}
    /\ sink \in Sinks
    /\ call = 1
    /\ prev = [out |-> <<>>, result |-> Pending]
    /\ earlier = [contents |-> {}, failed |-> FALSE]
    /\ pc = "Start"
    /\ idx = 0
    /\ stack = <<>>
    /\ out = <<>>
    /\ referent_map = EmptyMap
    /\ next_referent = 0
    /\ shared_strings_to_emit = EmptyMap
    /\ property_buffer = <<>>
    /\ ss = 0
    /\ result = Pending
    /\ visited = <<>>
    /\ lookups = 0

(***************************************************************************)
(* encode_internal                                                         *)
(***************************************************************************)
\* writer.write(start_element("roblox").attr("version", "4"))?
RootOpen ==
    /\ pc = "Start"
    /\ IF SinkAccepts
       THEN /\ out' = Append(out, StartElement("roblox", <<<<"version", "4">>>>))
            /\ pc' = "Instances"
            /\ UNCHANGED <<result, stack, property_buffer>>
       ELSE /\ Fail(SinkFailure)
            /\ UNCHANGED out
    /\ UNCHANGED <<inputs, history, emit, idx, ss, trace>>

\* The loop over ids passing over an id that has a referent already.
NextTopLevel_skipping_seen ==
    /\ pc = "Instances"
    /\ stack = <<>>
    /\ idx < Len(ids)
    /\ stack' = IF ids[idx + 1] \in DOMAIN referent_map
                THEN <<>>
                ELSE <<Frame(ids[idx + 1], "Item", 0)>>
    /\ idx' = idx + 1
    /\ UNCHANGED <<inputs, history, emit, pc, out, property_buffer, ss, result, trace>>

\* for id in ids { serialize_instance(.., *id, ..)? }: the call for the next id
NextTopLevel ==
    /\ pc = "Instances"
    /\ stack = <<>>
    /\ idx < Len(ids)
    /\ stack' = <<Frame(ids[idx + 1], "Item", 0)>>
    /\ idx' = idx + 1
    /\ UNCHANGED <<inputs, history, emit, pc, out, property_buffer, ss, result, trace>>

(***************************************************************************)
(* serialize_instance                                                      *)
(***************************************************************************)
\* state.map_id(id), then the Item element with its class and referent
BeginInstance ==
    /\ InInstance("Item")
    /\ LET mapped == map_id(Top.id, referent_map, next_referent)
       IN /\ referent_map' = mapped.referent_map
          /\ next_referent' = mapped.next_referent
          /\ visited' = Append(visited, Top.id)
          /\ IF SinkAccepts
             THEN /\ out' = Append(out, StartElement("Item",
                                <<<<"class", TopInstance.class>>,
                                  <<"referent", to_string(mapped.referent)>>>>))
                  /\ stack' = At("Properties")
                  /\ UNCHANGED <<pc, result, property_buffer>>
             ELSE /\ Fail(SinkFailure)
                  /\ UNCHANGED out
    /\ UNCHANGED <<inputs, history, shared_strings_to_emit, idx, ss, lookups>>

\* writer.write(start_element("Properties"))?
OpenProperties ==
    /\ InInstance("Properties")
    /\ IF SinkAccepts
       THEN /\ out' = Append(out, StartElement("Properties", <<>>))
            /\ stack' = At("Name")
            /\ UNCHANGED <<pc, result, property_buffer>>
       ELSE /\ Fail(SinkFailure)
            /\ UNCHANGED out
    /\ UNCHANGED <<inputs, history, emit, idx, ss, trace>>

\* write_value_xml(writer, state, "Name", &Variant::String(instance.name))?
WriteName ==
    /\ InInstance("Name")
    /\ IF SinkAccepts
       THEN /\ out' = Append(out, PropertyEntry("Name", VariantString(TopInstance.name)))
            /\ stack' = At("Collect")
            /\ UNCHANGED <<pc, result, property_buffer>>
       ELSE /\ Fail(SinkFailure)
            /\ UNCHANGED out
    /\ UNCHANGED <<inputs, history, emit, idx, ss, trace>>

\* property_buffer.extend(&instance.properties), in whatever order the map
\* iterates, and property_buffer.sort_unstable_by_key(..)
CollectProperties ==
    /\ InInstance("Collect")
    /\ \E o \in Orders(DOMAIN TopInstance.properties) :
            property_buffer' =
                sort_unstable_by_key(extend(property_buffer, TopInstance.properties, o))
    /\ stack' = At("Loop")
    /\ UNCHANGED <<inputs, history, emit, pc, idx, out, ss, result, trace>>

\* One iteration of for (property_name, value) in property_buffer.drain(..)
EncodeProperty ==
    /\ InInstance("Loop")
    /\ property_buffer # <<>>
    /\ LET property_name == Head(property_buffer)[1]
           value == Head(property_buffer)[2]
           todo == serialize_property(TopInstance.class, property_name, value, options)
       IN /\ lookups' = lookups +
                (IF lookup(TopInstance.class, property_name, options).performed THEN 1 ELSE 0)
          /\ CASE todo.act = "skip" ->
                     /\ property_buffer' = Tail(property_buffer)
                     /\ UNCHANGED <<pc, result, stack, out, shared_strings_to_emit>>
               [] todo.act = "return" ->
                     /\ Fail(todo.error)
                     /\ UNCHANGED <<out, shared_strings_to_emit>>
               [] todo.act = "write" ->
                     /\ shared_strings_to_emit' =
                           write_value_state(shared_strings_to_emit, todo.value)
                     /\ IF SinkAccepts
                        THEN /\ out' = Append(out, PropertyEntry(todo.name, todo.value))
                             /\ property_buffer' = Tail(property_buffer)
                             /\ UNCHANGED <<pc, result, stack>>
                        ELSE /\ Fail(SinkFailure)
                             /\ UNCHANGED out
    /\ UNCHANGED <<inputs, history, referent_map, next_referent, idx, ss, visited>>

\* writer.write(end_element())? closing Properties, after the loop
CloseProperties ==
    /\ InInstance("Loop")
    /\ property_buffer = <<>>
    /\ IF SinkAccepts
       THEN /\ out' = Append(out, EndElement)
            /\ stack' = At("Children")
            /\ UNCHANGED <<pc, result, property_buffer>>
       ELSE /\ Fail(SinkFailure)
            /\ UNCHANGED out
    /\ UNCHANGED <<inputs, history, emit, idx, ss, trace>>

\* A call for a child made while the parent's properties are still being
\* taken from the buffer.
RecurseChild_before_drained ==
    /\ pc = "Instances" /\ stack # <<>> /\ Top.at \in {"Loop", "Children"}
    /\ Top.child < Len(TopInstance.children)
    /\ stack' = Pop \o <<[Top EXCEPT !.child = Top.child + 1],
                         Frame(TopInstance.children[Top.child + 1], "Item", 0)>>
    /\ UNCHANGED <<inputs, history, emit, pc, idx, out, property_buffer, ss, result, trace>>

\* The loop over the children taking them from the last to the first.
RecurseChild_reversed ==
    /\ InInstance("Children")
    /\ Top.child < Len(TopInstance.children)
    /\ stack' = Pop \o <<[Top EXCEPT !.child = Top.child + 1],
                         Frame(TopInstance.children[Len(TopInstance.children) - Top.child],
                               "Item", 0)>>
    /\ UNCHANGED <<inputs, history, emit, pc, idx, out, property_buffer, ss, result, trace>>

\* for child_id in instance.children() { serialize_instance(.., *child_id, ..)? }
RecurseChild ==
    /\ InInstance("Children")
    /\ Top.child < Len(TopInstance.children)
    /\ stack' = Pop \o <<[Top EXCEPT !.child = Top.child + 1],
                         Frame(TopInstance.children[Top.child + 1], "Item", 0)>>
    /\ UNCHANGED <<inputs, history, emit, pc, idx, out, property_buffer, ss, result, trace>>

\* writer.write(end_element())? closing Item, and Ok(())
CloseInstance ==
    /\ InInstance("Children")
    /\ Top.child = Len(TopInstance.children)
    /\ IF SinkAccepts
       THEN /\ out' = Append(out, EndElement)
            /\ stack' = Pop
            /\ UNCHANGED <<pc, result, property_buffer>>
       ELSE /\ Fail(SinkFailure)
            /\ UNCHANGED out
    /\ UNCHANGED <<inputs, history, emit, idx, ss, trace>>

(***************************************************************************)
(* serialize_shared_strings                                                *)
(***************************************************************************)
\* The loop over ids left as soon as no instance is being serialized.
AfterAnyInstance == pc = "Instances" /\ stack = <<>>

\* The loop over ids has handed every id to serialize_instance.
AfterInstances == pc = "Instances" /\ stack = <<>> /\ idx = Len(ids)

\* if state.shared_strings_to_emit.is_empty() { return Ok(()) }
NoSharedStrings ==
    /\ AfterInstances
    /\ DOMAIN shared_strings_to_emit = {}
    /\ pc' = "RootClose"
    /\ UNCHANGED <<inputs, history, emit, idx, stack, out, property_buffer, ss, result, trace>>

\* serialize_shared_strings without its return for an empty map.
OpenSharedStrings_always ==
    /\ AfterInstances
    /\ IF SinkAccepts
       THEN /\ out' = Append(out, StartElement("SharedStrings", <<>>))
            /\ pc' = "SharedString"
            /\ ss' = 1
            /\ UNCHANGED <<result, stack, property_buffer>>
       ELSE /\ Fail(SinkFailure)
            /\ UNCHANGED <<out, ss>>
    /\ UNCHANGED <<inputs, history, emit, idx, trace>>

\* writer.write(start_element("SharedStrings"))?
OpenSharedStrings ==
    /\ AfterInstances
    /\ DOMAIN shared_strings_to_emit # {}
    /\ IF SinkAccepts
       THEN /\ out' = Append(out, StartElement("SharedStrings", <<>>))
            /\ pc' = "SharedString"
            /\ ss' = 1
            /\ UNCHANGED <<result, stack, property_buffer>>
       ELSE /\ Fail(SinkFailure)
            /\ UNCHANGED <<out, ss>>
    /\ UNCHANGED <<inputs, history, emit, idx, trace>>

\* The SharedString element of the next value, with its md5 attribute
OpenSharedString ==
    /\ pc = "SharedString"
    /\ ss <= Len(Values(shared_strings_to_emit))
    /\ LET value == Values(shared_strings_to_emit)[ss]
           full_hash == SharedStringHash(value)
           truncated_hash == SubSeq(full_hash, 1, TruncatedHashLen)
       IN IF SinkAccepts
          THEN /\ out' = Append(out, StartElement("SharedString",
                                <<<<"md5", Base64Encode(truncated_hash)>>>>))
               /\ pc' = "SharedStringData"
               /\ UNCHANGED <<result, stack, property_buffer>>
          ELSE /\ Fail(SinkFailure)
               /\ UNCHANGED out
    /\ UNCHANGED <<inputs, history, emit, idx, ss, trace>>

\* writer.write_string(&base64::encode(value.data()))?
WriteSharedStringData ==
    /\ pc = "SharedStringData"
    /\ LET value == Values(shared_strings_to_emit)[ss]
       IN IF SinkAccepts
          THEN /\ out' = Append(out, Characters(Base64Encode(SharedStringData(value))))
               /\ pc' = "SharedStringEnd"
               /\ UNCHANGED <<result, stack, property_buffer>>
          ELSE /\ Fail(SinkFailure)
               /\ UNCHANGED out
    /\ UNCHANGED <<inputs, history, emit, idx, ss, trace>>

\* writer.end_element()? closing SharedString
CloseSharedString ==
    /\ pc = "SharedStringEnd"
    /\ IF SinkAccepts
       THEN /\ out' = Append(out, EndElement)
            /\ pc' = "SharedString"
            /\ ss' = ss + 1
            /\ UNCHANGED <<result, stack, property_buffer>>
       ELSE /\ Fail(SinkFailure)
            /\ UNCHANGED <<out, ss>>
    /\ UNCHANGED <<inputs, history, emit, idx, trace>>

\* writer.end_element()? closing SharedStrings, and Ok(())
CloseSharedStrings ==
    /\ pc = "SharedString"
    /\ ss > Len(Values(shared_strings_to_emit))
    /\ IF SinkAccepts
       THEN /\ out' = Append(out, EndElement)
            /\ pc' = "RootClose"
            /\ UNCHANGED <<result, stack, property_buffer>>
       ELSE /\ Fail(SinkFailure)
            /\ UNCHANGED out
    /\ UNCHANGED <<inputs, history, emit, idx, ss, trace>>

\* writer.write(end_element())? closing roblox, and Ok(())
RootClose ==
    /\ pc = "RootClose"
    /\ IF SinkAccepts
       THEN /\ out' = Append(out, EndElement)
            /\ pc' = "Done"
            /\ result' = Ok
            /\ UNCHANGED <<stack, property_buffer>>
       ELSE /\ Fail(SinkFailure)
            /\ UNCHANGED out
    /\ UNCHANGED <<inputs, history, emit, idx, ss, trace>>

\* The contents of the SharedStrings in the registry.
Registered == {SharedStringData(shared_strings_to_emit[k]) : k \in DOMAIN shared_strings_to_emit}

\* What is known of the calls made so far once the current one is over.
Remembered == [contents |-> earlier.contents \cup Registered, failed |-> pc = "Failed"]

\* The caller encodes the same tree with the same ids and options again:
\* encode_internal builds a new writer, EmitState and property buffer.
EncodeAgain ==
    /\ pc \in {"Done", "Failed"}
    /\ call < MaxCalls
    /\ call' = call + 1
    /\ prev' = [out |-> out, result |-> result]
    /\ earlier' = Remembered
    /\ pc' = "Start"
    /\ idx' = 0
    /\ stack' = <<>>
    /\ out' = <<>>
    /\ referent_map' = EmptyMap
    /\ next_referent' = 0
    /\ shared_strings_to_emit' = EmptyMap
    /\ property_buffer' = <<>>
    /\ ss' = 0
    /\ result' = Pending
    /\ visited' = <<>>
    /\ lookups' = 0
    /\ UNCHANGED inputs

Next ==
    \/ RootOpen
    \/ NextTopLevel
    \/ BeginInstance
    \/ OpenProperties
    \/ WriteName
    \/ CollectProperties
    \/ EncodeProperty
    \/ CloseProperties
    \/ RecurseChild
    \/ CloseInstance
    \/ NoSharedStrings
    \/ OpenSharedStrings
    \/ OpenSharedString
    \/ WriteSharedStringData
    \/ CloseSharedString
    \/ CloseSharedStrings
    \/ RootClose
    \/ EncodeAgain

Spec == Init /\ [][Next]_vars

(***************************************************************************)
(* Calls one after the other on inputs that change from call to call, each *)
(* with at most one top-level id and one of a few sinks.                   *)
(***************************************************************************)
OneOrNoId == {<<>>} \cup {<<id>> : id \in Refs}

FewSinks == {s \in Sinks : ~s.limited \/ s.cap \in {0, 4, 9}}

InitCalls ==
    /\ Init
    /\ ids \in OneOrNoId
    /\ sink \in FewSinks

\* A later call that goes on with the EmitState the call before it left.
EncodeNext_resuming ==
    /\ pc \in {"Done", "Failed"}
    /\ call < MaxCalls
    /\ call' = call + 1
    /\ dom' \in Doms
    /\ ids' \in OneOrNoId
    /\ options' \in {EncodeOptions(b) : b \in EncodePropertyBehavior}
    /\ sink' \in FewSinks
    /\ prev' = [out |-> <<>>, result |-> Pending]
    /\ earlier' = Remembered
    /\ pc' = "Start"
    /\ idx' = 0
    /\ stack' = <<>>
    /\ out' = <<>>
    /\ property_buffer' = <<>>
    /\ ss' = 0
    /\ result' = Pending
    /\ visited' = <<>>
    /\ lookups' = 0
    /\ UNCHANGED emit

\* The caller makes another call, on a tree, ids, options and output of its
\* choice, after a call that returned Ok or an error: encode_internal builds
\* a new writer, EmitState (EmitState::new) and property buffer.
EncodeNext ==
    /\ pc \in {"Done", "Failed"}
    /\ call < MaxCalls
    /\ call' = call + 1
    /\ dom' \in Doms
    /\ ids' \in OneOrNoId
    /\ options' \in {EncodeOptions(b) : b \in EncodePropertyBehavior}
    /\ sink' \in FewSinks
    /\ prev' = [out |-> <<>>, result |-> Pending]
    /\ earlier' = Remembered
    /\ pc' = "Start"
    /\ idx' = 0
    /\ stack' = <<>>
    /\ out' = <<>>
    /\ referent_map' = EmptyMap
    /\ next_referent' = 0
    /\ shared_strings_to_emit' = EmptyMap
    /\ property_buffer' = <<>>
    /\ ss' = 0
    /\ result' = Pending
    /\ visited' = <<>>
    /\ lookups' = 0

NextCalls ==
    \/ RootOpen
    \/ NextTopLevel
    \/ BeginInstance
    \/ OpenProperties
    \/ WriteName
    \/ CollectProperties
    \/ EncodeProperty
    \/ CloseProperties
    \/ RecurseChild
    \/ CloseInstance
    \/ NoSharedStrings
    \/ OpenSharedStrings
    \/ OpenSharedString
    \/ WriteSharedStringData
    \/ CloseSharedString
    \/ CloseSharedStrings
    \/ RootClose
    \/ EncodeNext

SpecCalls == InitCalls /\ [][NextCalls]_vars


(***************************************************************************)
(* Reading the output and the tree, for the properties below.              *)
(***************************************************************************)
\* The instances of a walk from the ids in list, in pre-order: an instance,
\* then the walks of its children in stored order; the list in its order.
RECURSIVE PreOrder(_, _)
PreOrder(d, list) ==
    IF list = <<>> THEN <<>>
    ELSE <<Head(list)>> \o PreOrder(d, get_by_ref(d, Head(list)).children)
                        \o PreOrder(d, Tail(list))

IsPrefix(a, b) == Len(a) <= Len(b) /\ a = SubSeq(b, 1, Len(a))

IsStart(e, tag) == e.ev = "start" /\ e.tag = tag

\* The Item elements opened in the output, in order.
Items == SelectSeq(out, LAMBDA e : IsStart(e, "Item"))

\* Number of distinct instances visited before the first visit of visited[i].
Rank(i) ==
    LET first == CHOOSE j \in 1..i : visited[j] = visited[i] /\ \A k \in 1..(j - 1) : visited[k] # visited[i]
    IN Cardinality({visited[k] : k \in 1..(first - 1)})

Attr(e, key) == (CHOOSE a \in {e.attrs[i] : i \in DOMAIN e.attrs} : a[1] = key)[2]

(***************************************************************************)
(* C1                                                                      *)
(***************************************************************************)
\* C1: the instances are visited in pre-order from the top-level ids in the
\* caller's order (parent before children, children in stored order); the
\* k-th distinct instance visited (from 0) has referent k in the registry
\* and in every Item element written for it; distinct instances have
\* distinct referents.
C1_ReferentsInFirstVisitOrder ==
    /\ IsPrefix(visited, PreOrder(dom, ids))
    /\ DOMAIN referent_map = {visited[i] : i \in 1..Len(visited)}
    /\ \A i \in 1..Len(visited) : referent_map[visited[i]] = Rank(i)
    /\ \A a, b \in DOMAIN referent_map : a # b => referent_map[a] # referent_map[b]
    /\ Len(visited) - Len(Items) \in {0, 1}
    /\ Len(visited) > Len(Items) => pc = "Failed"
    /\ \A i \in 1..Len(Items) :
          /\ Attr(Items[i], "referent") = to_string(Rank(i))
          /\ Attr(Items[i], "class") = get_by_ref(dom, visited[i]).class

\* A finished call that visited five distinct instances, some of them twice.
C1_Witness ==
    /\ pc = "Done"
    /\ Cardinality(DOMAIN referent_map) = 5
    /\ Len(visited) > 5
    /\ Len(Items) = Len(visited)


(***************************************************************************)
(* The property the loop of serialize_instance is about to take, and what  *)
(* the database, the conversion and the migration say about it.            *)
(***************************************************************************)
AtProperty == InInstance("Loop") /\ property_buffer # <<>>
CurClass == TopInstance.class
CurName == Head(property_buffer)[1]
CurValue == Head(property_buffer)[2]
Behavior == options.property_behavior
Reflecting == Behavior # "NoReflection"
Resolved == <<CurClass, CurName>> \in DOMAIN options.database
CurDescriptor == options.database[<<CurClass, CurName>>]
Expected ==
    IF CurDescriptor.data_type.kind = "Enum" THEN "Enum" ELSE CurDescriptor.data_type.ty
Converted == try_convert_ref(CurValue, Expected)
HasMigration == CurDescriptor.kind.serialization.tag = "Migrate"
Migrated == perform(CurDescriptor.kind.serialization, Converted.value)

\* The step took the property, wrote entry for it and went on.
Emitted(entry) ==
    /\ out' = Append(out, entry)
    /\ property_buffer' = Tail(property_buffer)
    /\ pc' = pc
    /\ stack' = stack
    /\ result' = Pending

\* The step ended the call with error, writing nothing.
Aborted(error) ==
    /\ out' = out
    /\ pc' = "Failed"
    /\ result' = error

HasEntry(name, value) == \E i \in 1..Len(out) : out[i] = PropertyEntry(name, value)

(***************************************************************************)
(* C2                                                                      *)
(***************************************************************************)
C2_Step ==
    (AtProperty /\ Reflecting /\ ~Resolved) =>
        CASE Behavior = "IgnoreUnknown" ->
                /\ out' = out
                /\ property_buffer' = Tail(property_buffer)
                /\ pc' = pc /\ stack' = stack /\ result' = Pending
                /\ shared_strings_to_emit' = shared_strings_to_emit
          [] Behavior = "WriteUnknown" ->
                IF SinkAccepts THEN Emitted(PropertyEntry(CurName, CurValue))
                ELSE Aborted(SinkFailure)
          [] Behavior = "ErrorOnUnknown" ->
                Aborted(Error("UnknownProperty", CurClass, CurName, "", "", ""))

\* C2: with reflection on, a stored property without a descriptor is
\* dropped under IgnoreUnknown (nothing written, the loop goes on), written
\* under its stored name with its stored value under WriteUnknown (when the
\* sink takes it), and ends the call with UnknownProperty carrying the class
\* and the stored name under ErrorOnUnknown.
C2_UnknownPropertyPolicy == [][C2_Step]_vars

\* A finished WriteUnknown call whose output holds two unknown properties of
\* the first instance of DomA with their stored values.
C2_Witness ==
    /\ pc = "Done"
    /\ Behavior = "WriteUnknown"
    /\ dom = "A"
    /\ HasEntry("Zeta", Variant("SharedString", 3, ""))
    /\ HasEntry("alpha", Variant("Int32", 2, ""))

(***************************************************************************)
(* C3                                                                      *)
(***************************************************************************)
C3_Step ==
    Behavior = "NoReflection" =>
        /\ lookups = 0 /\ lookups' = 0
        /\ result'.kind \notin {"UnknownProperty", "UnsupportedPropertyConversion"}
        /\ AtProperty =>
              IF SinkAccepts THEN Emitted(PropertyEntry(CurName, CurValue))
              ELSE Aborted(SinkFailure)

\* C3: under NoReflection the database is never asked, every stored
\* property is written under its stored name with its stored value (when
\* the sink takes it), and no call ends with UnknownProperty or
\* UnsupportedPropertyConversion.
C3_NoReflectionWritesStored == [][C3_Step]_vars

\* A finished NoReflection call on DomB whose output holds, as stored, two
\* properties whose conversion fails under reflection and one the database
\* has a descriptor with a migration for.
C3_Witness ==
    /\ pc = "Done"
    /\ Behavior = "NoReflection"
    /\ dom = "B"
    /\ HasEntry("Anchored", VariantString("yes"))
    /\ HasEntry("Font", Variant("Enum", 99, ""))
    /\ HasEntry("Font", Variant("Int32", 7, ""))

(***************************************************************************)
(* C4                                                                      *)
(***************************************************************************)
C4_Step ==
    (AtProperty /\ Reflecting /\ Resolved /\ ~Converted.ok) =>
        Aborted(Error("UnsupportedPropertyConversion", CurClass, CurName,
                      Expected, TypeOf(CurValue), Converted.message))

\* C4: a property with a descriptor whose stored value does not convert to
\* the descriptor's type (Enum for any enum) ends the call with
\* UnsupportedPropertyConversion carrying the class, the stored name, the
\* expected type, the stored value's type and the conversion's message;
\* nothing is written for it, under every behavior that uses reflection.
C4_ConversionFailureAborts == [][C4_Step]_vars

\* A call ended by the conversion of an Int32 to an enum, below another
\* instance.
C4_Witness ==
    /\ pc = "Failed"
    /\ result = Error("UnsupportedPropertyConversion", "TextLabel", "Font", "Enum", "Int32",
                      "cannot convert Int32 to Enum")
    /\ Len(Items) = 3

(***************************************************************************)
(* C5                                                                      *)
(***************************************************************************)
C5_Step ==
    (AtProperty /\ Reflecting /\ Resolved /\ Converted.ok /\ HasMigration
        /\ Migrated.ok /\ SinkAccepts) =>
        Emitted(PropertyEntry(CurDescriptor.kind.serialization.new_property_name,
                              Migrated.value))

\* C5: a property whose descriptor has a migration that succeeds on the
\* converted value is written once, under the migration's new name with the
\* migration's result, and not under the old name or with the old value.
C5_MigrationRewrites == [][C5_Step]_vars

\* A finished call that migrated OldColor of the second instance of DomA.
C5_Witness ==
    /\ pc = "Done"
    /\ dom = "A"
    /\ Reflecting
    /\ HasEntry("Color3uint8", Variant("Color3uint8", 50, ""))
    /\ \A i \in 1..Len(out) : out[i].name # "OldColor"

(***************************************************************************)
(* C6                                                                      *)
(***************************************************************************)
\* The next step of the call writes an event to the sink.
WriteDue ==
    \/ pc \in {"Start", "SharedString", "SharedStringData", "SharedStringEnd", "RootClose"}
    \/ InInstance("Item") \/ InInstance("Properties") \/ InInstance("Name")
    \/ InInstance("Loop") /\ property_buffer = <<>>
    \/ InInstance("Children") /\ Top.child = Len(TopInstance.children)
    \/ AfterInstances /\ DOMAIN shared_strings_to_emit # {}
    \/ AtProperty /\ ~Reflecting
    \/ AtProperty /\ Reflecting /\ ~Resolved /\ Behavior = "WriteUnknown"
    \/ AtProperty /\ Reflecting /\ Resolved /\ Converted.ok

C6_Step ==
    /\ (AtProperty /\ Reflecting /\ Resolved /\ Converted.ok /\ HasMigration
            /\ ~Migrated.ok /\ SinkAccepts) =>
          Emitted(PropertyEntry(CurDescriptor.name, Converted.value))
    /\ (AtProperty /\ Reflecting /\ Resolved /\ ~Converted.ok) => pc' = "Failed"
    /\ (AtProperty /\ Reflecting /\ ~Resolved /\ Behavior = "ErrorOnUnknown") => pc' = "Failed"
    /\ (WriteDue /\ ~SinkAccepts) => Aborted(SinkFailure)

\* C6: a migration that fails does not end the call: the property is
\* written under the descriptor's name with the converted value and the loop
\* goes on; a failed conversion, an unknown property under ErrorOnUnknown
\* and a write the sink refuses all end the call.
C6_MigrationFailureIsSoft == [][C6_Step]_vars

\* A finished call on DomB that wrote Font unmigrated and then Text.
C6_Witness ==
    /\ pc = "Done"
    /\ Reflecting
    /\ \E i \in 1..(Len(out) - 1) :
          /\ out[i] = PropertyEntry("Font", Variant("Enum", 99, ""))
          /\ out[i + 1] = PropertyEntry("Text", VariantString("t"))


(***************************************************************************)
(* C7                                                                      *)
(***************************************************************************)
\* The handles of the SharedStrings written as property values.
WrittenSharedStrings ==
    {out[i].value.v : i \in {j \in 1..Len(out) : out[j].ev = "prop" /\ out[j].tag = "SharedString"}}

WrittenHashes == {SharedStringHash(h) : h \in WrittenSharedStrings}

\* The hashes in S, each once, in ascending order.
Ascending(S) == CHOOSE q \in Orders(S) : \A i, j \in 1..Len(q) : i < j => BytesLess(q[i], q[j])

\* The position of the SharedStrings element in the output, 0 if none.
BlockStart ==
    IF \E i \in 1..Len(out) : IsStart(out[i], "SharedStrings")
    THEN CHOOSE i \in 1..Len(out) : IsStart(out[i], "SharedStrings")
    ELSE 0

\* C7: once the instances and the trailing block are written, the block has
\* one SharedString element per distinct hash of the SharedStrings written
\* as property values, in ascending order of hash, each with the base64 of
\* the first 16 bytes of the hash and of the content; there is no block
\* when there is no such hash.
C7_BlockOnePerHashAscending ==
    pc \in {"RootClose", "Done"} =>
        LET hashes == Ascending(WrittenHashes)
            n == Len(hashes)
            content(k) == SharedStringData(CHOOSE h \in WrittenSharedStrings :
                                                SharedStringHash(h) = hashes[k])
        IN /\ DOMAIN shared_strings_to_emit = WrittenHashes
           /\ n = 0 => BlockStart = 0
           /\ n > 0 =>
                /\ BlockStart > 0
                /\ Cardinality({i \in 1..Len(out) : IsStart(out[i], "SharedStrings")}) = 1
                /\ Cardinality({i \in 1..Len(out) : IsStart(out[i], "SharedString")}) = n
                /\ Len(out) >= BlockStart + 3 * n + 1
                /\ \A k \in 1..n :
                      /\ out[BlockStart + 3 * k - 2] =
                            StartElement("SharedString",
                                <<<<"md5", Base64Encode(SubSeq(hashes[k], 1, 16))>>>>)
                      /\ out[BlockStart + 3 * k - 1] = Characters(Base64Encode(content(k)))
                      /\ out[BlockStart + 3 * k] = EndElement
                /\ out[BlockStart + 3 * n + 1] = EndElement

\* A finished call that wrote four SharedString values with three distinct
\* hashes, a larger hash before a smaller one.
C7_Witness ==
    /\ pc = "Done"
    /\ Cardinality(WrittenSharedStrings) = 4
    /\ Cardinality(WrittenHashes) = 3
    /\ \E i, j \in 1..BlockStart :
          /\ i < j
          /\ out[i].ev = "prop" /\ out[i].tag = "SharedString"
          /\ out[j].ev = "prop" /\ out[j].tag = "SharedString"
          /\ BytesLess(SharedStringHash(out[j].value.v), SharedStringHash(out[i].value.v))

(***************************************************************************)
(* C8                                                                      *)
(***************************************************************************)
PropertiesStarts == {i \in 1..Len(out) : IsStart(out[i], "Properties")}

\* The names in S, each once, in ascending order.
AscendingNames(S) == CHOOSE q \in Orders(S) : \A i, j \in 1..Len(q) : i < j => StringLess(q[i], q[j])

\* C8: each Properties element opened is followed first by the Name entry
\* holding the name of the instance it belongs to, under every behavior and
\* for instances without properties; while an instance's properties are
\* being taken, the buffer holds stored properties in ascending order of
\* name with their stored values, all larger than the ones already taken;
\* under NoReflection, where every property is written as stored, the
\* entries after Name are the properties taken so far in ascending order.
C8_NameFirstThenSorted ==
    /\ \A i \in PropertiesStarts :
          LET k == Cardinality({j \in PropertiesStarts : j <= i})
          IN IF i < Len(out)
             THEN out[i + 1] = PropertyEntry("Name", VariantString(get_by_ref(dom, visited[k]).name))
             ELSE InInstance("Name") \/ pc = "Failed"
    /\ InInstance("Loop") =>
          LET properties == TopInstance.properties
              waiting == {property_buffer[i][1] : i \in 1..Len(property_buffer)}
              taken == AscendingNames(DOMAIN properties \ waiting)
              last == CHOOSE i \in PropertiesStarts : \A j \in PropertiesStarts : j <= i
          IN /\ \A i, j \in 1..Len(property_buffer) :
                    i < j => StringLess(property_buffer[i][1], property_buffer[j][1])
             /\ \A i \in 1..Len(property_buffer) :
                    /\ property_buffer[i][1] \in DOMAIN properties
                    /\ property_buffer[i][2] = properties[property_buffer[i][1]]
             /\ \A a \in DOMAIN properties \ waiting : \A b \in waiting : StringLess(a, b)
             /\ Behavior = "NoReflection" =>
                    /\ Len(out) = last + 1 + Len(taken)
                    /\ \A i \in 1..Len(taken) :
                          out[last + 1 + i] = PropertyEntry(taken[i], properties[taken[i]])

\* A finished call that wrote the block of the first instance of DomA as
\* stored: Name, then Alpha, Color, Zeta, alpha; and the block of an
\* instance without properties: Name alone.
C8_Witness ==
    /\ pc = "Done"
    /\ dom = "A"
    /\ \E i \in PropertiesStarts :
          /\ out[i + 1].name = "Name" /\ out[i + 1].value.s = "Base"
          /\ out[i + 2].name = "Alpha"
          /\ out[i + 3].name = "Color"
          /\ out[i + 4].name = "Zeta"
          /\ out[i + 5].name = "alpha"
          /\ out[i + 6] = EndElement
    /\ \E i \in PropertiesStarts :
          /\ out[i + 1].name = "Name" /\ out[i + 1].value.s = "Empty"
          /\ out[i + 2] = EndElement

(***************************************************************************)
(* C9                                                                      *)
(***************************************************************************)
\* C9: a second call on the same tree, ids, options and sink writes, event
\* for event, what the first call wrote, and ends with the same result.
C9_SameInputsSameOutput ==
    call > 1 =>
        /\ IsPrefix(out, prev.out)
        /\ pc \in {"Done", "Failed"} => out = prev.out /\ result = prev.result

\* A second call that finished after visiting the first instance of DomA,
\* whose four properties may be iterated in 24 orders.
C9_Witness ==
    /\ call = 2
    /\ pc = "Done"
    /\ dom = "A"
    /\ \E i \in 1..Len(visited) : visited[i] = 1
    /\ out = prev.out
    /\ out # <<>>

(***************************************************************************)
(* C10                                                                     *)
(***************************************************************************)
Phase ==
    CASE pc = "Start" -> "Start"
      [] pc = "Instances" /\ idx = 0 -> "RootOpen"
      [] pc = "Instances" /\ idx > 0 -> "TopLevelNode"
      [] pc \in {"SharedString", "SharedStringData", "SharedStringEnd"} -> "SharedBlobs"
      [] pc = "RootClose" -> "RootClose"
      [] pc = "Done" -> "Done"
      [] pc = "Failed" -> "Failed"

PhaseOrder ==
    {<<"Start", "RootOpen">>, <<"RootOpen", "TopLevelNode">>, <<"RootOpen", "RootClose">>,
     <<"TopLevelNode", "TopLevelNode">>, <<"TopLevelNode", "SharedBlobs">>,
     <<"TopLevelNode", "RootClose">>, <<"SharedBlobs", "SharedBlobs">>,
     <<"SharedBlobs", "RootClose">>, <<"RootClose", "Done">>}
    \cup {<<p, "Failed">> : p \in {"Start", "RootOpen", "TopLevelNode", "SharedBlobs", "RootClose"}}
    \cup {<<"Done", "Start">>, <<"Failed", "Start">>}

\* The Item elements opened directly below the root: a pass over out[i..]
\* with the number of elements open at i.
RECURSIVE TopLevelItems(_, _)
TopLevelItems(i, depth) ==
    IF i > Len(out) THEN <<>>
    ELSE IF out[i].ev = "start" THEN
        (IF depth = 1 /\ out[i].tag = "Item" THEN <<out[i]>> ELSE <<>>)
            \o TopLevelItems(i + 1, depth + 1)
    ELSE IF out[i].ev = "end" THEN TopLevelItems(i + 1, depth - 1)
    ELSE TopLevelItems(i + 1, depth)

\* Number of elements open at the end of the output.
RECURSIVE OpenAtEnd(_)
OpenAtEnd(i) ==
    IF i = 0 THEN 0
    ELSE OpenAtEnd(i - 1) + (IF out[i].ev = "start" THEN 1 ELSE IF out[i].ev = "end" THEN -1 ELSE 0)

C10_State ==
    /\ pc = "Start" => out = <<>>
    /\ out # <<>> => out[1] = StartElement("roblox", <<<<"version", "4">>>>)
    /\ \A i \in 2..Len(out) : ~IsStart(out[i], "roblox")
    /\ \A i \in 1..Len(out) : IsStart(out[i], "Item") => BlockStart = 0 \/ i < BlockStart
    /\ LET top == TopLevelItems(1, 0)
       IN /\ Len(top) <= Len(ids)
          /\ \A k \in 1..Len(top) :
                /\ Attr(top[k], "class") = get_by_ref(dom, ids[k]).class
                /\ Attr(top[k], "referent") = to_string(referent_map[ids[k]])
          /\ pc \in {"SharedString", "SharedStringData", "SharedStringEnd", "RootClose", "Done"}
                => Len(top) = Len(ids)
    /\ BlockStart > 0 => visited = PreOrder(dom, ids) /\ Len(Items) = Len(visited)
    /\ result = Ok <=> pc = "Done"
    /\ pc = "Done" =>
          /\ visited = PreOrder(dom, ids)
          /\ Len(Items) = Len(visited)
          /\ BlockStart > 0 <=> DOMAIN shared_strings_to_emit # {}
          /\ out[Len(out)] = EndElement
          /\ OpenAtEnd(Len(out)) = 0
          /\ OpenAtEnd(Len(out) - 1) = 1

C10_Step ==
    /\ <<Phase, Phase'>> \in PhaseOrder
    /\ (Phase # "SharedBlobs" /\ Phase' = "SharedBlobs") =>
          /\ idx = Len(ids) /\ stack = <<>>
          /\ DOMAIN shared_strings_to_emit # {}
          /\ out' = Append(out, StartElement("SharedStrings", <<>>))
    /\ (Phase \in {"RootOpen", "TopLevelNode"} /\ Phase' = "RootClose") =>
          /\ idx = Len(ids) /\ stack = <<>>
          /\ DOMAIN shared_strings_to_emit = {}
    /\ idx' = idx + 1 =>
          /\ stack = <<>> /\ stack' = <<Frame(ids[idx'], "Item", 0)>>
          /\ visited = PreOrder(dom, SubSeq(ids, 1, idx))
          /\ OpenAtEnd(Len(out)) = 1
    /\ Phase' = "Done" => out' = Append(out, EndElement)

\* C10: a call goes Start, RootOpen, TopLevelNode (any number of times),
\* SharedBlobs (only when SharedStrings were registered, and then always),
\* RootClose, Done, or fails on the way.  The roblox element with version
\* "4" is the first event; the Item elements below it are those of the ids
\* in the caller's order, each begun when the subtrees of the ids before it
\* are complete; no Item is opened after the SharedStrings element; the
\* last event of a call that returns Ok closes the root.
C10_PhaseOrder == []C10_State /\ [][C10_Step]_vars

\* A finished call with two different top-level instances and a trailing
\* block.
C10_Witness ==
    /\ pc = "Done"
    /\ Len(ids) = 2
    /\ ids[1] # ids[2]
    /\ Len(TopLevelItems(1, 0)) = 2
    /\ BlockStart > 0
    /\ Len(visited) > 2

(***************************************************************************)
(* C11                                                                     *)
(***************************************************************************)
FailureKinds == {"SinkFailure", "UnknownProperty", "UnsupportedPropertyConversion"}

\* The next step of the call meets a failure: a write the sink refuses, a
\* conversion that fails, or an unknown property under ErrorOnUnknown.
FailureDue ==
    \/ WriteDue /\ ~SinkAccepts
    \/ AtProperty /\ Reflecting /\ Resolved /\ ~Converted.ok
    \/ AtProperty /\ Reflecting /\ ~Resolved /\ Behavior = "ErrorOnUnknown"

C11_State ==
    /\ result.kind \in FailureKinds <=> pc = "Failed"
    /\ pc = "Failed" =>
          /\ stack = <<>>
          /\ property_buffer = <<>>
          /\ out # <<>> => OpenAtEnd(Len(out)) >= 1
          /\ BlockStart > 0 => OpenAtEnd(Len(out)) \in {1, 2, 3}

C11_Step ==
    /\ FailureDue =>
          /\ pc' = "Failed"
          /\ result'.kind \in FailureKinds
          /\ out' = out
          /\ idx' = idx /\ ss' = ss
          /\ Len(visited') - Len(visited) \in {0, 1}
          /\ Len(visited') > Len(visited) => InInstance("Item")
    /\ (pc # "Failed" /\ pc' = "Failed") => FailureDue
    /\ pc = "Failed" =>
          /\ call' = call + 1
          /\ pc' = "Start"
          /\ prev' = [out |-> out, result |-> result]

\* C11: a write the sink refuses, a conversion that fails and an unknown
\* property under ErrorOnUnknown each end the call in the step they happen
\* in, and nothing else does: the step writes no event and leaves the call
\* Failed with the error as its result; a Failed call takes no further step
\* (the only step from Failed is the caller's next call, which sees the
\* output as the failure left it), so no property, instance, closing element
\* or SharedStrings block follows, and the events written stay written with
\* at least the root element still open.
C11_FailureIsTerminal == []C11_State /\ [][C11_Step]_vars

\* A call the sink ended inside the SharedStrings block, which stays open.
C11_Witness ==
    /\ pc = "Failed"
    /\ result = SinkFailure
    /\ BlockStart > 0
    /\ Len(out) > BlockStart

(***************************************************************************)
(* C12                                                                     *)
(***************************************************************************)
\* The elements of a document and where each may be opened ("" is outside
\* the document).
Allowed ==
    {<<"", "roblox">>, <<"roblox", "Item">>, <<"Item", "Properties">>, <<"Item", "Item">>,
     <<"roblox", "SharedStrings">>, <<"SharedStrings", "SharedString">>}

\* out[i..] is the rest of a complete document, given the tags of the
\* elements open before event i, outermost first: every start is of an
\* element allowed below the innermost open one, a property entry lies in a
\* Properties element and text in a SharedString element, every end closes
\* an open element, the outermost element is closed by the last event and
\* nothing is open after it.
RECURSIVE WellNested(_, _)
WellNested(i, open) ==
    IF i > Len(out) THEN open = <<>>
    ELSE LET e == out[i]
             parent == IF open = <<>> THEN "" ELSE open[Len(open)]
         IN CASE e.ev = "start" ->
                    /\ <<parent, e.tag>> \in Allowed
                    /\ WellNested(i + 1, Append(open, e.tag))
              [] e.ev = "end" ->
                    /\ open # <<>>
                    /\ Len(open) = 1 => i = Len(out)
                    /\ WellNested(i + 1, SubSeq(open, 1, Len(open) - 1))
              [] e.ev = "prop" -> parent = "Properties" /\ WellNested(i + 1, open)
              [] e.ev = "text" -> parent = "SharedString" /\ WellNested(i + 1, open)

Complete ==
    /\ out # <<>>
    /\ out[1] = StartElement("roblox", <<<<"version", "4">>>>)
    /\ out[Len(out)] = EndElement
    /\ WellNested(1, <<>>)

\* C12: a call whose result is Ok has written a complete document: the
\* roblox element first, its end last, and in between every Item,
\* Properties, SharedStrings and SharedString element closed in nested
\* order; a call that has returned with anything less has an error as its
\* result.
C12_OkOnlyWithCompleteDocument ==
    /\ result = Ok => pc = "Done" /\ Complete
    /\ (pc \in {"Done", "Failed"} /\ ~Complete) => result.kind \in FailureKinds

\* A call that returned Ok for one top-level instance with Items nested
\* below it and a SharedStrings block.
C12_Witness ==
    /\ result = Ok
    /\ Len(ids) = 1
    /\ Len(Items) >= 5
    /\ BlockStart > 0
    /\ Complete

(***************************************************************************)
(* C13                                                                     *)
(***************************************************************************)
\* The SharedString elements of the trailing block, in order.
BlockEntries == SelectSeq(out, LAMBDA e : IsStart(e, "SharedString"))

\* The text written inside the SharedString elements, in order.
BlockTexts == SelectSeq(out, LAMBDA e : e.ev = "text")

WrittenContents == {SharedStringData(h) : h \in WrittenSharedStrings}

Truncated(hash) == SubSeq(hash, 1, TruncatedHashLen)

RootPair == <<StartElement("roblox", <<<<"version", "4">>>>), EndElement>>

\* C14: a call with no top-level ids allocates no referent, registers no
\* SharedString, enters no instance and asks the database nothing; it
\* writes the roblox element's start and end and nothing else, and returns
\* Ok under every property behavior; it fails only when the sink refuses
\* one of these two writes, and then with the sink's error.
C14_EmptyIdsRootPair ==
    ids = <<>> =>
        /\ referent_map = EmptyMap
        /\ next_referent = 0
        /\ shared_strings_to_emit = EmptyMap
        /\ visited = <<>>
        /\ lookups = 0
        /\ stack = <<>>
        /\ pc \in {"Start", "Instances", "RootClose", "Done", "Failed"}
        /\ IsPrefix(out, RootPair)
        /\ pc = "Start" => out = <<>>
        /\ pc \in {"Instances", "RootClose"} => Len(out) = 1
        /\ pc = "Done" => out = RootPair /\ result = Ok
        /\ pc = "Failed" =>
              /\ result = SinkFailure
              /\ sink.limited /\ sink.cap = Len(out) /\ Len(out) < Len(RootPair)

\* A second call without ids that returned Ok under ErrorOnUnknown.
C14_Witness ==
    /\ ids = <<>>
    /\ Behavior = "ErrorOnUnknown"
    /\ call = 2
    /\ pc = "Done"
    /\ result = Ok
    /\ out = RootPair

(***************************************************************************)
(* C15                                                                     *)
(***************************************************************************)
Allocated == {referent_map[id] : id \in DOMAIN referent_map}

C15_State ==
    /\ DOMAIN referent_map = {visited[i] : i \in 1..Len(visited)}
    /\ next_referent = Cardinality(DOMAIN referent_map)
    /\ Allocated = 0..(next_referent - 1)
    /\ \A a, b \in DOMAIN referent_map : a # b => referent_map[a] # referent_map[b]

\* A step of one call: map_id is called exactly when serialize_instance is
\* entered, for the id it is entered with.
C15_Step ==
    call' = call =>
        /\ \A id \in DOMAIN referent_map :
              id \in DOMAIN referent_map' /\ referent_map'[id] = referent_map[id]
        /\ IF visited' # visited
           THEN LET id == visited'[Len(visited')]
                IN /\ id \in DOMAIN referent_map'
                   /\ id \notin DOMAIN referent_map =>
                         /\ referent_map'[id] = next_referent
                         /\ next_referent' = next_referent + 1
                         /\ DOMAIN referent_map' = DOMAIN referent_map \cup {id}
                   /\ id \in DOMAIN referent_map =>
                         /\ referent_map' = referent_map
                         /\ next_referent' = next_referent
                   /\ out' # out =>
                         out' = Append(out, StartElement("Item",
                                    <<<<"class", get_by_ref(dom, id).class>>,
                                      <<"referent", to_string(referent_map'[id])>>>>))
           ELSE referent_map' = referent_map /\ next_referent' = next_referent

\* C15: within one call, the first map_id of an id records next_referent
\* for it and adds one to next_referent, starting from 0; a later map_id of
\* the same id returns the recorded referent and changes nothing; no other
\* step touches the registry, so an association is never changed or
\* removed; distinct ids have distinct referents; the referents allocated
\* are 0 .. next_referent - 1 and next_referent is the number of distinct
\* ids mapped.
C15_RegistryAllocatesOnce == []C15_State /\ [][C15_Step]_vars

\* A call in progress that has mapped five distinct ids and is inside an
\* instance it had mapped before.
C15_Witness ==
    /\ pc = "Instances"
    /\ stack # <<>>
    /\ next_referent = 5
    /\ Allocated = {0, 1, 2, 3, 4}
    /\ \E i \in 1..(Len(visited) - 1) : visited[i] = visited[Len(visited)]

(***************************************************************************)
(* C16                                                                     *)
(***************************************************************************)
\* The first position from i on that holds no property entry.
RECURSIVE AfterEntries(_)
AfterEntries(i) ==
    IF i <= Len(out) /\ out[i].ev = "prop" THEN AfterEntries(i + 1) ELSE i

\* Reading out[i..] as the element of instance id: its Item start with the
\* instance's class, at once its Properties start, the Name entry with the
\* instance's name and further entries, the end of Properties, the elements
\* of the instance's children in stored order, and its own end.  The value
\* is the position after the element, or 0 when out[i..] is not that.
RECURSIVE ItemEnd(_, _), ItemsEnd(_, _)
ItemEnd(i, id) ==
    LET instance == get_by_ref(dom, id)
        close == AfterEntries(i + 2)
        last == IF close < Len(out) /\ out[close] = EndElement
                THEN ItemsEnd(close + 1, instance.children)
                ELSE 0
    IN IF /\ i + 2 <= Len(out)
          /\ IsStart(out[i], "Item")
          /\ Attr(out[i], "class") = instance.class
          /\ IsStart(out[i + 1], "Properties")
          /\ out[i + 2] = PropertyEntry("Name", VariantString(instance.name))
          /\ last # 0
          /\ last <= Len(out)
          /\ out[last] = EndElement
       THEN last + 1
       ELSE 0

\* The elements of the instances in list, one after the other, from i.
ItemsEnd(i, list) ==
    IF list = <<>> THEN i
    ELSE LET next == ItemEnd(i, Head(list))
         IN IF next = 0 THEN 0 ELSE ItemsEnd(next, Tail(list))

\* C16: in the document of a call that returned Ok, the element of every
\* instance holds one Properties element, opened right after the Item start
\* and closed before any child's element, then one Item element per child
\* in the stored order of the children, each opened and closed inside it,
\* and its own end after the last child's element is complete; the elements
\* of the top-level ids follow the root's start and what comes after them is
\* the SharedStrings block or the root's end.
C16_ItemHoldsPropertiesThenChildren ==
    result = Ok =>
        LET after == ItemsEnd(2, ids)
        IN /\ after # 0
           /\ after <= Len(out)
           /\ IF BlockStart > 0 THEN after = BlockStart ELSE after = Len(out)

\* A call that returned Ok for the first instance of DomA, whose children
\* are stored as 3, 2 and whose child 3 has a child with a child.
C16_Witness ==
    /\ result = Ok
    /\ dom = "A"
    /\ visited = <<1, 3, 4, 5, 2>>
    /\ ItemsEnd(2, ids) = BlockStart

(***************************************************************************)
(* C17                                                                     *)
(***************************************************************************)
\* What the loop of serialize_instance writes for the properties named in
\* names, taken in this order, of an instance of class with these
\* properties: nothing for a property that is dropped, and nothing from the
\* property on that ends the call.
RECURSIVE EntriesFor(_, _, _)
EntriesFor(class, properties, names) ==
    IF names = <<>> THEN <<>>
    ELSE LET todo == serialize_property(class, Head(names), properties[Head(names)], options)
         IN CASE todo.act = "write" ->
                    <<PropertyEntry(todo.name, todo.value)>>
                        \o EntriesFor(class, properties, Tail(names))
              [] todo.act = "skip" -> EntriesFor(class, properties, Tail(names))
              [] todo.act = "return" -> <<>>

\* The names in S from the least to the greatest.
RECURSIVE LeastFirst(_)
LeastFirst(S) ==
    IF S = {} THEN <<>>
    ELSE LET least == CHOOSE a \in S : \A b \in S \ {a} : StringLess(a, b)
         IN <<least>> \o LeastFirst(S \ {least})

\* The entries the block of instance id holds when all its properties were
\* taken: those of its own properties in ascending order of name.
OwnEntries(id) ==
    LET instance == get_by_ref(dom, id)
    IN EntriesFor(instance.class, instance.properties,
                  LeastFirst(DOMAIN instance.properties))

C17_BufferEmptyOnEntry ==
    /\ (InInstance("Item") \/ InInstance("Properties") \/ InInstance("Name")
            \/ InInstance("Collect") \/ InInstance("Children")) => property_buffer = <<>>
    /\ (pc # "Instances" \/ stack = <<>>) => property_buffer = <<>>

C17_BlocksHoldOwnProperties ==
    \A i \in PropertiesStarts :
        LET k == Cardinality({j \in PropertiesStarts : j <= i})
            close == AfterEntries(i + 1)
            entries == SubSeq(out, i + 2, close - 1)
            own == OwnEntries(visited[k])
        IN /\ IsPrefix(entries, own)
           /\ (close <= Len(out) /\ i < Len(out)) =>
                 /\ out[close] = EndElement
                 /\ entries = own
                 /\ Len(own) <= Cardinality(DOMAIN get_by_ref(dom, visited[k]).properties)

\* C17: the property buffer is empty whenever serialize_instance is entered
\* (for a top-level id or a child), until it collects the instance's
\* properties, and again from the end of its loop on, so while it recurses
\* into the children; it is empty between instances, after the instances
\* and after a call that failed, in the property loop or elsewhere.  Every
\* Properties element written so far holds, after Name, what the loop
\* writes for the properties of its own instance, in ascending order of
\* name, each at most once, all of them once the element is closed, and
\* nothing of any other instance.
C17_PropertiesPerInstance == C17_BufferEmptyOnEntry /\ C17_BlocksHoldOwnProperties

\* A second call, made after the first ended in the property loop of the
\* second instance it visited with a property left in the buffer, taking the
\* properties of that instance again: the buffer holds these two only.
C17_Witness ==
    /\ call = 2
    /\ prev.result.kind = "UnsupportedPropertyConversion"
    /\ InInstance("Loop")
    /\ Len(visited) = 2
    /\ visited[1] # visited[2]
    /\ Len(property_buffer) = 2
    /\ Cardinality(DOMAIN TopInstance.properties) = 2

(***************************************************************************)
(* C18                                                                     *)
(***************************************************************************)
\* The contents of the SharedString properties of instance id.
SharedContents(id) ==
    LET properties == get_by_ref(dom, id).properties
    IN {SharedStringData(properties[name].v) :
            name \in {n \in DOMAIN properties : TypeOf(properties[n]) = "SharedString"}}

\* The contents of the SharedString properties of the instances visited.
VisitedContents == UNION {SharedContents(visited[i]) : i \in 1..Len(visited)}

\* C18: in calls made one after the other on any trees, ids, options and
\* outputs, also after a call that failed, every call starts with an empty
\* referent map, next_referent 0 and no SharedString registered; the first
\* instance a call visits has referent 0 in the registry and in its Item
\* element, and the counter counts this call's instances only; the registry
\* holds only SharedStrings of instances this call has visited, and the
\* trailing block only contents this call wrote as property values, so a
\* content that only an earlier call registered is in no later block.
C18_NoStateAcrossCalls ==
    /\ pc = "Start" =>
          /\ referent_map = EmptyMap
          /\ next_referent = 0
          /\ shared_strings_to_emit = EmptyMap
          /\ property_buffer = <<>>
          /\ out = <<>>
    /\ visited # <<>> => referent_map[visited[1]] = 0
    /\ Items # <<>> => Attr(Items[1], "referent") = "0"
    /\ next_referent = Cardinality({visited[i] : i \in 1..Len(visited)})
    /\ Registered \subseteq VisitedContents
    /\ \A k \in 1..Len(BlockTexts) :
          \E c \in WrittenContents : BlockTexts[k] = Characters(Base64Encode(c))
    /\ \A c \in earlier.contents \ WrittenContents :
          \A k \in 1..Len(BlockTexts) : BlockTexts[k] # Characters(Base64Encode(c))

\* A call that returned Ok with a trailing block, made after a call that
\* failed and had registered a content this call did not meet.
C18_Witness ==
    /\ call > 1
    /\ earlier.failed
    /\ pc = "Done"
    /\ BlockStart > 0
    /\ earlier.contents \ WrittenContents # {}
    /\ Attr(Items[1], "referent") = "0"

(***************************************************************************)
(* C19                                                                     *)
(***************************************************************************)
\* The positions of the Item starts in the output, in order.
ItemStarts == SelectSeq([i \in 1..Len(out) |-> i], LAMBDA i : IsStart(out[i], "Item"))

\* The events of the element that starts at position i for instance id.
Element(i, id) == SubSeq(out, i, ItemEnd(i, id) - 1)

\* C19: an instance visited more than once in a call, being listed twice
\* or listed and also below a listed instance, has the same referent in
\* every Item element written for it, and next_referent counts the distinct
\* instances, not the visits; in a call that returned Ok the visits are
\* those of the whole walk from the ids, one Item element per visit, and
\* each visit of an instance wrote its whole element again, with the
\* elements of everything below it: the same events as on its first visit.
C19_RevisitsRepeatSubtree ==
    /\ LET referent == [i \in 1..Len(Items) |-> Attr(Items[i], "referent")]
       IN \A i, j \in DOMAIN referent :
             visited[i] = visited[j] <=> referent[i] = referent[j]
    /\ next_referent = Cardinality({visited[i] : i \in 1..Len(visited)})
    /\ result = Ok =>
          /\ visited = PreOrder(dom, ids)
          /\ Len(Items) = Len(visited)
          /\ \A i \in 1..Len(visited) :
                LET subtree == PreOrder(dom, <<visited[i]>>)
                IN /\ i + Len(subtree) - 1 <= Len(visited)
                   /\ SubSeq(visited, i, i + Len(subtree) - 1) = subtree
                   /\ ItemEnd(ItemStarts[i], visited[i]) # 0
          /\ \A i, j \in 1..Len(visited) :
                visited[i] = visited[j] =>
                    Element(ItemStarts[i], visited[i]) = Element(ItemStarts[j], visited[j])

\* A call that returned Ok for two different top-level ids, the first of
\* them also met below the second: eight Item elements for five instances.
C19_Witness ==
    /\ result = Ok
    /\ Len(ids) = 2
    /\ ids[1] # ids[2]
    /\ \E j \in 2..Len(PreOrder(dom, <<ids[2]>>)) : PreOrder(dom, <<ids[2]>>)[j] = ids[1]
    /\ get_by_ref(dom, ids[1]).children # <<>>
    /\ Len(Items) = 8
    /\ next_referent = 5

=============================================================================
